---------------------------- MODULE Spec2Model ----------------------------
(***************************************************************************)
(* A model of the third-party build orchestration in                       *)
(* src/ccdc/thirdparty/package.py (class Package and its mixins) and of    *)
(* the concrete package in src/build_qwt.py (class QwtPackage).            *)
(*                                                                         *)
(* Strings are TLA+ strings, concatenated with \o as Python concatenates   *)
(* them.  A pathlib.Path is the sequence of its parts; str(path) and       *)
(* Path.suffixes are computed from the parts character by character.       *)
(***************************************************************************)
EXTENDS Integers, Sequences, FiniteSets, TLC

VARIABLES
    \* two Package configurations and the names computed for each
    cfgA, cfgB, namesA, namesB,
    \* the process: sys.platform and os.environ (a function whose domain is
    \* the set of variables that are set)
    sys_platform, environ,
    \* the env= dictionaries handed to the configuration and build commands
    confEnv, buildEnv,
    \* fetch_source_archives: the package's source_archives mapping (in dict
    \* order), the files under source_downloads_base, the requests the running
    \* call has sent, where the call stands, and how many calls were made
    source_archives, downloads, requests, fetchState, fetchIndex, fetchRuns,
    previousRunReturned,
    \* one call of system(): the child process (the lines it is to write, how
    \* many it has written, whether it has exited, its exit code), the pipe
    \* carrying its combined stdout/stderr, and the caller (its position, the
    \* locals retcode and output, the log file, the error it raised)
    childLines, childWritten, childExited, exitCode, pipe,
    sysPc, append_log, retcode, output, logfile, raised,
    \* what running commands has left behind: the log files under build_logs
    \* (by task), the commands run so far, and the exception now propagating
    logs, cmds, exc,
    \* one call of extract_archive: its path argument and whether it was made
    eaPath, eaCalled,
    \* QwtPackage().build(): where it stands and the stages it has entered
    pc, ran

namingVars == <<cfgA, cfgB, namesA, namesB>>
processVars == <<sys_platform, environ>>
envVars == <<confEnv, buildEnv>>

fetchVars == <<source_archives, downloads, requests, fetchState, fetchIndex,
               fetchRuns, previousRunReturned>>

systemVars == <<childLines, childWritten, childExited, exitCode, pipe,
                sysPc, append_log, retcode, output, logfile, raised>>

runVars == <<logs, cmds, exc>>
extractVars == <<eaPath, eaCalled>>
buildVars == <<pc, ran>>

vars == <<namingVars, processVars, envVars, fetchVars, systemVars, runVars,
          extractVars, buildVars>>

\* No dictionary has been computed yet
NotComputed == [done |-> FALSE, env |-> <<>>]

\* Each specification leaves the parts it does not exercise at rest
NamingIdle ==
    /\ cfgA = [name |-> "qwt"] /\ cfgB = [name |-> "qwt"]
    /\ namesA = [done |-> FALSE] /\ namesB = [done |-> FALSE]
ProcessIdle == sys_platform = "linux" /\ environ = <<>>
EnvIdle == confEnv = NotComputed /\ buildEnv = NotComputed
FetchIdle ==
    /\ source_archives = <<>> /\ downloads = <<>> /\ requests = <<>>
    /\ fetchState = "idle" /\ fetchIndex = 0 /\ fetchRuns = 0
    /\ previousRunReturned = FALSE
RunIdle == logs = <<>> /\ cmds = <<>> /\ exc = "none"
ExtractIdle == eaPath = <<>> /\ eaCalled = FALSE
BuildIdle == pc = "idle" /\ ran = <<>>
\* Python's None, for the local retcode
None == -1
NotRaised == [raised |-> FALSE]
SystemIdle ==
    /\ childLines = <<>> /\ childWritten = 0 /\ childExited = FALSE
    /\ exitCode = 0 /\ pipe = <<>> /\ sysPc = "idle" /\ append_log = FALSE
    /\ retcode = None /\ output = <<>> /\ logfile = <<>> /\ raised = NotRaised

---------------------------------------------------------------------------
(* Python helpers *)

\* str.join: sep.join(parts)
RECURSIVE Join(_, _)
Join(sep, parts) ==
    IF Len(parts) = 0 THEN ""
    ELSE IF Len(parts) = 1 THEN parts[1]
    ELSE parts[1] \o sep \o Join(sep, Tail(parts))

\* the elements of a sequence
Range(s) == { s[i] : i \in DOMAIN s }

\* s is an initial segment of t
IsPrefix(s, t) == Len(s) <= Len(t) /\ SubSeq(t, 1, Len(s)) = s

\* sub in s, for strings
Contains(s, sub) ==
    \E i \in 1..(Len(s) + 1) :
        /\ i + Len(sub) - 1 <= Len(s)
        /\ SubSeq(s, i, i + Len(sub) - 1) = sub

\* d[key] = value on a dict
DictSet(d, key, value) ==
    [k \in DOMAIN d \cup {key} |-> IF k = key THEN value ELSE d[k]]

---------------------------------------------------------------------------
(* Platform and directory layout *)

SysPlatforms == {"linux", "darwin", "win32"}

macos(sp) == sp = "darwin"
windows(sp) == sp = "win32"
\* sys.platform.startswith('linux'); "linux" is the only such value drawn
linux(sp) == sp = "linux"

\* use_distribution_in_base_name is False in every package of the
\* repository, so Package.platform returns sys.platform
platform(sp) == sp

toolbase(sp) ==
    IF windows(sp) THEN <<"D:", "x_mirror", "buildman", "tools">>
    ELSE <<"/", "opt", "ccdc", "third-party">>

source_builds_base(sp) ==
    IF windows(sp) THEN <<"D:", "tp", "builds">>
    ELSE <<"/", "opt", "ccdc", "third-party-sources", "builds">>

source_extracted_base(sp) ==
    IF windows(sp) THEN <<"D:", "tp", "extracted">>
    ELSE <<"/", "opt", "ccdc", "third-party-sources", "extracted">>

source_downloads_base(sp, env) ==
    IF windows(sp) THEN
        IF "SYSTEM_ARTIFACTSDIRECTORY" \in DOMAIN env
        THEN <<env["SYSTEM_ARTIFACTSDIRECTORY"]>>
        ELSE <<"D:", "tp", "downloads">>
    ELSE <<"/", "opt", "ccdc", "third-party-sources", "downloads">>

\* Path / str
PathJoin(p, s) == Append(p, s)

\* Path.relative_to: the parts of p below base
relative_to(p, base) == SubSeq(p, Len(base) + 1, Len(p))

---------------------------------------------------------------------------
(* Output naming *)

Placeholder == "do-not-use-me-developer-version"

output_base_name_no_placeholder(name, version, env, sp, use_vs) ==
    Join("-", <<name, version>>
        \o (IF "BUILD_BUILDNUMBER" \in DOMAIN env
            THEN <<env["BUILD_BUILDNUMBER"]>> ELSE <<>>)
        \o <<platform(sp)>>
        \o (IF use_vs /\ "BUILD_VS_VERSION" \in DOMAIN env
            THEN <<"vs" \o env["BUILD_VS_VERSION"]>> ELSE <<>>))

output_base_name(name, version, env, sp, use_vs) ==
    LET c1 == <<name, version>>
        c2 == IF "BUILD_BUILDNUMBER" \in DOMAIN env
              THEN Append(c1, env["BUILD_BUILDNUMBER"])
              ELSE Append(c1, Placeholder)
        c3 == Append(c2, platform(sp))
        c4 == IF use_vs /\ "BUILD_VS_VERSION" \in DOMAIN env
              THEN Append(c3, "vs" \o env["BUILD_VS_VERSION"])
              ELSE c3
    IN  Join("-", c4)

install_directory(name, version, env, sp, use_vs) ==
    PathJoin(PathJoin(toolbase(sp), name),
             output_base_name(name, version, env, sp, use_vs))

output_archive_filename(name, version, env, sp, use_vs) ==
    output_base_name(name, version, env, sp, use_vs) \o ".tar.gz"

---------------------------------------------------------------------------
(* Naming specification: two configurations on one host, named side by side *)

PackageNames == {"qwt", "qwt-qt5"}
PackageVersions == {"6.1.4", "6.1.4-rc1"}
BuildNumbers == {"7", "rc1-7", Placeholder}
VsVersions == {"2017", "2019"}

\* os.environ restricted to the variables the naming reads: a function whose
\* domain is the set of variables that are set
NamingEnvs ==
    UNION { [D -> BuildNumbers \cup VsVersions] :
            D \in SUBSET {"BUILD_BUILDNUMBER", "BUILD_VS_VERSION"} }

WellFormedEnv(env) ==
    /\ "BUILD_BUILDNUMBER" \in DOMAIN env => env["BUILD_BUILDNUMBER"] \in BuildNumbers
    /\ "BUILD_VS_VERSION" \in DOMAIN env => env["BUILD_VS_VERSION"] \in VsVersions

Configs ==
    [name : PackageNames, version : PackageVersions,
     environ : { e \in NamingEnvs : WellFormedEnv(e) },
     sys_platform : SysPlatforms, use_vs_version_in_base_name : BOOLEAN]

NotNamed ==
    [done |-> FALSE, output_base_name |-> "", install_directory |-> <<>>,
     output_archive_filename |-> ""]

NamesOf(c) ==
    [done |-> TRUE,
     output_base_name |->
        output_base_name(c.name, c.version, c.environ, c.sys_platform,
                         c.use_vs_version_in_base_name),
     install_directory |->
        install_directory(c.name, c.version, c.environ, c.sys_platform,
                          c.use_vs_version_in_base_name),
     output_archive_filename |->
        output_archive_filename(c.name, c.version, c.environ, c.sys_platform,
                                c.use_vs_version_in_base_name)]

NamingInit ==
    /\ cfgA \in Configs
    /\ cfgB \in Configs
    /\ namesA = NotNamed
    /\ namesB = NotNamed
    /\ ProcessIdle /\ EnvIdle /\ FetchIdle /\ SystemIdle /\ RunIdle /\ ExtractIdle /\ BuildIdle

ComputeNamesA ==
    /\ ~namesA.done
    /\ namesA' = NamesOf(cfgA)
    /\ UNCHANGED <<cfgA, cfgB, namesB, processVars, envVars, fetchVars, systemVars,
                 runVars, extractVars, buildVars>>

ComputeNamesB ==
    /\ ~namesB.done
    /\ namesB' = NamesOf(cfgB)
    /\ UNCHANGED <<cfgA, cfgB, namesA, processVars, envVars, fetchVars, systemVars,
                 runVars, extractVars, buildVars>>

NamingNext == ComputeNamesA \/ ComputeNamesB

SpecNaming == NamingInit /\ [][NamingNext]_vars


\* C3: two configurations (name, version, BUILD_BUILDNUMBER or its absence,
\* platform, BUILD_VS_VERSION or its absence) that differ in at least one
\* component get different install directories and different output base
\* names.  Both packages keep use_vs_version_in_base_name at its value True.
C3_CollisionFree ==
    ( /\ namesA.done /\ namesB.done
      /\ cfgA.use_vs_version_in_base_name /\ cfgB.use_vs_version_in_base_name
      /\ cfgA # cfgB )
    => /\ namesA.install_directory # namesB.install_directory
       /\ namesA.output_base_name # namesB.output_base_name

\* C4: output_base_name is name-version-<build number or placeholder>-platform
\* followed by -vs<BUILD_VS_VERSION> only when that variable is set and
\* use_vs_version_in_base_name is true; install_directory is
\* toolbase/name/output_base_name; output_archive_filename is
\* output_base_name.tar.gz; qwt 6.1.4 on linux without CI variables is named
\* qwt-6.1.4-do-not-use-me-developer-version-linux.
C4_Expected(c) ==
    c.name \o "-" \o c.version \o "-"
    \o (IF "BUILD_BUILDNUMBER" \in DOMAIN c.environ
        THEN c.environ["BUILD_BUILDNUMBER"]
        ELSE "do-not-use-me-developer-version")
    \o "-" \o c.sys_platform
    \o (IF "BUILD_VS_VERSION" \in DOMAIN c.environ /\ c.use_vs_version_in_base_name
        THEN "-vs" \o c.environ["BUILD_VS_VERSION"]
        ELSE "")

C4_Example(c) ==
    /\ c.name = "qwt" /\ c.version = "6.1.4" /\ c.sys_platform = "linux"
    /\ DOMAIN c.environ = {}

C4_OutputNames ==
    namesA.done =>
        /\ namesA.output_base_name = C4_Expected(cfgA)
        /\ Len(namesA.install_directory) = Len(toolbase(cfgA.sys_platform)) + 2
        /\ IsPrefix(toolbase(cfgA.sys_platform), namesA.install_directory)
        /\ namesA.install_directory[Len(namesA.install_directory) - 1] = cfgA.name
        /\ namesA.install_directory[Len(namesA.install_directory)] = C4_Expected(cfgA)
        /\ namesA.output_archive_filename = C4_Expected(cfgA) \o ".tar.gz"
        /\ C4_Example(cfgA) =>
            namesA.output_base_name = "qwt-6.1.4-do-not-use-me-developer-version-linux"

C4_Witness ==
    /\ namesA.done
    /\ C4_Example(cfgA)
    /\ namesA.output_base_name = "qwt-6.1.4-do-not-use-me-developer-version-linux"
    /\ namesA.output_archive_filename
         = "qwt-6.1.4-do-not-use-me-developer-version-linux.tar.gz"

---------------------------------------------------------------------------
(* Compiler and linker flags, and the environment handed to commands *)

\* xcrun --show-sdk-path, as the host answers it
macos_sdkroot == "/Library/Developer/CommandLineTools/SDKs/MacOSX.sdk"

macos_deployment_target == "10.12"

MacosFlags ==
    <<"-arch", "x86_64", "-isysroot", macos_sdkroot,
      "-mmacosx-version-min=" \o macos_deployment_target>>

cflags(sp) == <<"-O2">> \o (IF macos(sp) THEN MacosFlags ELSE <<>>)

ldflags(sp) == <<>> \o (IF macos(sp) THEN MacosFlags ELSE <<>>)

Package_cxxflags(sp) == <<"-O2">> \o (IF macos(sp) THEN MacosFlags ELSE <<>>)

\* QwtPackage.cxxflags
cxxflags(sp) ==
    Package_cxxflags(sp) \o (IF linux(sp) THEN <<"-Wno-deprecated-copy">> ELSE <<>>)

environment_for_configuration_script(env, sp) ==
    LET e0 == env
        e1 == IF cflags(sp) # <<>>
              THEN DictSet(e0, "CFLAGS", Join(" ", cflags(sp))) ELSE e0
        e2 == IF cxxflags(sp) # <<>>
              THEN DictSet(e1, "CXXFLAGS", Join(" ", cxxflags(sp))) ELSE e1
        e3 == IF ldflags(sp) # <<>>
              THEN DictSet(e2, "LDFLAGS", Join(" ", ldflags(sp))) ELSE e2
    IN  e3

\* QwtPackage.environment_for_build_command
environment_for_build_command(env, sp) ==
    DictSet(environment_for_configuration_script(env, sp), "VERBOSE", "1")

---------------------------------------------------------------------------
(* Environment specification: the dictionaries computed from a drawn        *)
(* process environment                                                     *)

FlagVariables == {"CFLAGS", "CXXFLAGS", "LDFLAGS"}

CallerValues ==
    [CFLAGS |-> {"-g"}, CXXFLAGS |-> {"-g -Wall"}, LDFLAGS |-> {"-L/opt/lib"},
     PATH |-> {"/usr/bin"}, VERBOSE |-> {"0"}]

CallerEnvs ==
    { e \in UNION { [D -> UNION { CallerValues[k] : k \in DOMAIN CallerValues }] :
                    D \in SUBSET DOMAIN CallerValues } :
        \A k \in DOMAIN e : e[k] \in CallerValues[k] }

EnvInit ==
    /\ sys_platform \in SysPlatforms
    /\ environ \in CallerEnvs
    /\ confEnv = NotComputed
    /\ buildEnv = NotComputed
    /\ NamingIdle /\ FetchIdle /\ SystemIdle /\ RunIdle /\ ExtractIdle /\ BuildIdle

ComputeConfigurationEnv ==
    /\ ~confEnv.done
    /\ confEnv' = [done |-> TRUE,
                   env |-> environment_for_configuration_script(environ, sys_platform)]
    /\ UNCHANGED <<buildEnv, processVars, namingVars, fetchVars, systemVars,
                 runVars, extractVars, buildVars>>

ComputeBuildEnv ==
    /\ ~buildEnv.done
    /\ buildEnv' = [done |-> TRUE,
                    env |-> environment_for_build_command(environ, sys_platform)]
    /\ UNCHANGED <<confEnv, processVars, namingVars, fetchVars, systemVars,
                 runVars, extractVars, buildVars>>

EnvNext == ComputeConfigurationEnv \/ ComputeBuildEnv

SpecEnv == EnvInit /\ [][EnvNext]_vars

ComputedFlags(key, sp) ==
    IF key = "CFLAGS" THEN cflags(sp)
    ELSE IF key = "CXXFLAGS" THEN cxxflags(sp) ELSE ldflags(sp)

\* the dictionary passed augments the caller's flags and passes the rest through
C8_Augments(passed) ==
    /\ \A key \in FlagVariables \cap DOMAIN environ :
        /\ key \in DOMAIN passed
        /\ Contains(passed[key], environ[key])
        /\ \A i \in DOMAIN ComputedFlags(key, sys_platform) :
              Contains(passed[key], ComputedFlags(key, sys_platform)[i])
    /\ \A key \in DOMAIN environ \ FlagVariables :
        key \in DOMAIN passed /\ passed[key] = environ[key]

\* C8: for each of CFLAGS, CXXFLAGS and LDFLAGS set in the process
\* environment, the value passed to the configuration and build commands
\* contains the caller's value together with the package's computed flags,
\* and every other variable is passed through unchanged.
C8_EnvironmentAugmented ==
    /\ confEnv.done => C8_Augments(confEnv.env)
    /\ buildEnv.done => C8_Augments(buildEnv.env)

---------------------------------------------------------------------------
(* fetch_source_archives *)

\* how many archives a package declares at most
MaxArchives == 2
\* how many times fetch_source_archives is called
MaxFetchRuns == 2
\* how many blocks shutil.copyfileobj copies for one archive
ArchiveBlocks == 2

\* the (filename, url) pairs packages declare
ArchiveCatalogue ==
    { [filename |-> "qwt-6.1.4.zip",
       url |-> "https://downloads.example/qwt/qwt-6.1.4.zip"],
      [filename |-> "qt-5.12.3-linux.tar.xz",
       url |-> "https://downloads.example/qt/qt-5.12.3-linux.tar.xz"],
      [filename |-> "zlib-1.2.11.tar.gz",
       url |-> "https://downloads.example/zlib/zlib-1.2.11.tar.gz"] }

Filenames == { a.filename : a \in ArchiveCatalogue }

\* a dict has one entry per key
SourceArchiveMaps ==
    { m \in UNION { [1..n -> ArchiveCatalogue] : n \in 0..MaxArchives } :
        \A i, j \in DOMAIN m : i # j => m[i].filename # m[j].filename }

\* what the server sends for a url, block by block
RemoteContent(url) == [i \in 1..ArchiveBlocks |-> <<url, i>>]

NoFile == [exists |-> FALSE, data |-> <<>>]
FileWith(data) == [exists |-> TRUE, data |-> data]

UrlOf(filename) == (CHOOSE a \in ArchiveCatalogue : a.filename = filename).url

\* Path.exists on source_downloads_base / filename
Exists(filename) == downloads[filename].exists

FetchModelInit ==
    /\ source_archives \in SourceArchiveMaps
    \* a file already there was downloaded by an earlier call
    /\ downloads \in { d \in [Filenames -> { NoFile } \cup
                                { FileWith(RemoteContent(a.url)) : a \in ArchiveCatalogue }] :
                         \A f \in Filenames :
                            d[f].exists => d[f].data = RemoteContent(UrlOf(f)) }
    /\ requests = <<>>
    /\ fetchState = "idle"
    /\ fetchIndex = 0
    /\ fetchRuns = 0
    /\ previousRunReturned = FALSE

FetchInit ==
    /\ FetchModelInit /\ NamingIdle /\ ProcessIdle /\ EnvIdle /\ SystemIdle
    /\ RunIdle /\ ExtractIdle /\ BuildIdle

OthersUnchangedByFetch ==
    UNCHANGED <<namingVars, processVars, envVars, systemVars, runVars, extractVars, buildVars>>

\* a call of fetch_source_archives begins
FetchBegin ==
    /\ fetchState # "running"
    /\ fetchRuns < MaxFetchRuns
    /\ fetchState' = "running"
    /\ fetchIndex' = 1
    /\ fetchRuns' = fetchRuns + 1
    /\ previousRunReturned' = (fetchState = "returned")
    /\ requests' = <<>>
    /\ UNCHANGED <<source_archives, downloads>>
    /\ OthersUnchangedByFetch

CurrentEntry == source_archives[fetchIndex]

InLoop == fetchState = "running" /\ fetchIndex \in DOMAIN source_archives

\* the guard of the skip, without the existence test
SkipsExisting_never(filename) == FALSE

\* if (self.source_downloads_base / filename).exists(): continue
SkipsExisting(filename) == Exists(filename)

FetchSkip ==
    /\ InLoop
    /\ SkipsExisting(CurrentEntry.filename)
    /\ fetchIndex' = fetchIndex + 1
    /\ UNCHANGED <<source_archives, downloads, requests, fetchState, fetchRuns,
                   previousRunReturned>>
    /\ OthersUnchangedByFetch

\* urlopen raises: the request was sent, no file was opened
FetchOpenFails ==
    /\ InLoop
    /\ ~SkipsExisting(CurrentEntry.filename)
    /\ requests' = Append(requests, CurrentEntry.url)
    /\ fetchState' = "raised"
    /\ UNCHANGED <<source_archives, downloads, fetchIndex, fetchRuns,
                   previousRunReturned>>
    /\ OthersUnchangedByFetch

\* open(..., 'wb') creates or truncates the file; copyfileobj copies `blocks`
\* blocks and then either reaches the end of the response or raises
FetchDownload ==
    /\ InLoop
    /\ ~SkipsExisting(CurrentEntry.filename)
    /\ \E blocks \in 0..ArchiveBlocks :
        /\ downloads' =
             [downloads EXCEPT ![CurrentEntry.filename] =
                FileWith(SubSeq(RemoteContent(CurrentEntry.url), 1, blocks))]
        /\ IF blocks = ArchiveBlocks
           THEN fetchIndex' = fetchIndex + 1 /\ fetchState' = "running"
           ELSE fetchIndex' = fetchIndex /\ fetchState' = "raised"
    /\ requests' = Append(requests, CurrentEntry.url)
    /\ UNCHANGED <<source_archives, fetchRuns, previousRunReturned>>
    /\ OthersUnchangedByFetch

\* the for loop is exhausted
FetchReturn ==
    /\ fetchState = "running"
    /\ fetchIndex = Len(source_archives) + 1
    /\ fetchState' = "returned"
    /\ UNCHANGED <<source_archives, downloads, requests, fetchIndex, fetchRuns,
                   previousRunReturned>>
    /\ OthersUnchangedByFetch

FetchNext ==
    FetchBegin \/ FetchSkip \/ FetchOpenFails \/ FetchDownload \/ FetchReturn

SpecFetch == FetchInit /\ [][FetchNext]_vars

\* one pass of the loop over an entry whose file exists sends nothing and
\* leaves the files alone; over an entry whose file is missing it sends
\* exactly the request for that entry's url
C5_EntryStep ==
    InLoop /\ fetchIndex' # fetchIndex =>
        IF Exists(CurrentEntry.filename)
        THEN requests' = requests /\ downloads' = downloads
        ELSE requests' = Append(requests, CurrentEntry.url)

\* a call that follows a call that returned has sent no request
C5_RerunSilent ==
    (fetchRuns >= 2 /\ previousRunReturned) => requests = <<>>

\* C5: when fetch_source_archives reaches an entry whose file exists under
\* source_downloads_base it sends no request for it and leaves the file
\* unchanged, entries whose file is missing are still downloaded, and a call
\* made after a call that completed sends no request at all.
C5_SkipIfExists == [][C5_EntryStep]_vars /\ []C5_RerunSilent

C5_Witness ==
    /\ fetchRuns = 2 /\ previousRunReturned /\ fetchState = "returned"
    /\ Len(source_archives) = 2
    /\ requests = <<>>
    /\ \A i \in DOMAIN source_archives : Exists(source_archives[i].filename)

\* the file of a declared archive holds everything the server sends for it
CompleteDownload(entry) ==
    downloads[entry.filename].data = RemoteContent(entry.url)

\* C11: whenever no call of fetch_source_archives is in progress (before the
\* first call, after a call returned, after a call raised part-way through a
\* transfer), every file that exists under source_downloads_base for a
\* declared archive holds the complete download, so the skip of a later call
\* never accepts a truncated file.
C11_PresentFilesComplete ==
    fetchState # "running" =>
        \A i \in DOMAIN source_archives :
            Exists(source_archives[i].filename) => CompleteDownload(source_archives[i])

---------------------------------------------------------------------------
(* system(): one command, its child process and the poll/readline loop *)

\* how many lines a child writes at most
MaxLines == 2

ExitCodes == {0, 1}

\* the lines a child writes: line i of n
LinesOf(n) == [i \in 1..n |-> "line " \o ToString(i) \o "\n"]

\* what an earlier command left in the log file
EarlierLogs == { <<>>, <<"earlier\n">> }

SystemModelInit ==
    /\ childLines \in { LinesOf(n) : n \in 0..MaxLines }
    /\ exitCode \in ExitCodes
    /\ append_log \in BOOLEAN
    /\ logfile \in EarlierLogs
    /\ childWritten = 0
    /\ childExited = FALSE
    /\ pipe = <<>>
    /\ sysPc = "open"
    /\ retcode = None
    /\ output = <<>>
    /\ raised = NotRaised

SystemInit ==
    /\ SystemModelInit /\ NamingIdle /\ ProcessIdle /\ EnvIdle /\ FetchIdle
    /\ RunIdle /\ ExtractIdle /\ BuildIdle

OthersUnchangedBySystem ==
    UNCHANGED <<namingVars, processVars, envVars, fetchVars, runVars, extractVars, buildVars>>

\* open(self.logfile_path(task), openmode); output = ''
SystemOpenLog ==
    /\ sysPc = "open"
    /\ logfile' = IF append_log THEN logfile ELSE <<>>
    /\ output' = <<>>
    /\ sysPc' = "popen"
    /\ UNCHANGED <<childLines, childWritten, childExited, exitCode, pipe,
                   append_log, retcode, raised>>
    /\ OthersUnchangedBySystem

\* subprocess.Popen(...): the child starts
SystemPopen ==
    /\ sysPc = "popen"
    /\ sysPc' = "poll"
    /\ UNCHANGED <<childLines, childWritten, childExited, exitCode, pipe,
                   append_log, retcode, output, logfile, raised>>
    /\ OthersUnchangedBySystem

ChildStarted == sysPc \notin {"idle", "open", "popen"}

\* the child writes its next line to the pipe
ChildWrite ==
    /\ ChildStarted
    /\ ~childExited
    /\ childWritten < Len(childLines)
    /\ pipe' = Append(pipe, childLines[childWritten + 1])
    /\ childWritten' = childWritten + 1
    /\ UNCHANGED <<childLines, childExited, exitCode, sysPc, append_log,
                   retcode, output, logfile, raised>>
    /\ OthersUnchangedBySystem

\* the child has written everything and exits
ChildExit ==
    /\ ChildStarted
    /\ ~childExited
    /\ childWritten = Len(childLines)
    /\ childExited' = TRUE
    /\ UNCHANGED <<childLines, childWritten, exitCode, pipe, sysPc, append_log,
                   retcode, output, logfile, raised>>
    /\ OthersUnchangedBySystem

\* retcode = p.poll()
ParentPoll ==
    /\ sysPc = "poll"
    /\ retcode' = IF childExited THEN exitCode ELSE None
    /\ sysPc' = "readline"
    /\ UNCHANGED <<childLines, childWritten, childExited, exitCode, pipe,
                   append_log, output, logfile, raised>>
    /\ OthersUnchangedBySystem

\* if retcode is not None: break
LoopEnds(rc, l) == rc # None

\* l = p.stdout.readline() blocks until a line or the end of the stream;
\* output += l; f.write(l); then the test that ends the loop
ParentReadline ==
    /\ sysPc = "readline"
    /\ pipe # <<>> \/ childExited
    /\ LET l == IF pipe # <<>> THEN <<Head(pipe)>> ELSE <<>>
       IN  /\ pipe' = IF pipe # <<>> THEN Tail(pipe) ELSE pipe
           /\ output' = output \o l
           /\ logfile' = logfile \o l
           /\ sysPc' = IF LoopEnds(retcode, l) THEN "finish" ELSE "poll"
    /\ UNCHANGED <<childLines, childWritten, childExited, exitCode, append_log,
                   retcode, raised>>
    /\ OthersUnchangedBySystem

\* assert p.returncode is not None; raise CalledProcessError when it is not 0;
\* the with block closes the log file either way
SystemFinish ==
    /\ sysPc = "finish"
    /\ retcode # None
    /\ IF retcode # 0
       THEN /\ sysPc' = "raised"
            /\ raised' = [raised |-> TRUE, type |-> "CalledProcessError",
                          returncode |-> retcode, output |-> output]
       ELSE /\ sysPc' = "returned"
            /\ raised' = NotRaised
    /\ UNCHANGED <<childLines, childWritten, childExited, exitCode, pipe,
                   append_log, retcode, output, logfile>>
    /\ OthersUnchangedBySystem

SystemNext ==
    \/ SystemOpenLog \/ SystemPopen \/ ChildWrite \/ ChildExit
    \/ ParentPoll \/ ParentReadline \/ SystemFinish

SpecSystem == SystemInit /\ [][SystemNext]_vars

SystemDone == sysPc \in {"returned", "raised"}

\* What a caller of system() can rely on, and what the build specification
\* takes a command to do: the lines read are an initial segment of the lines
\* written, at least one when there is one, and the error is raised exactly
\* on a non-zero exit code.
SystemReadsInitialSegment ==
    SystemDone =>
        /\ childExited
        /\ IsPrefix(output, childLines)
        /\ Len(childLines) >= 1 => Len(output) >= 1
        /\ (sysPc = "raised") = (exitCode # 0)
        /\ ~append_log => logfile = output

\* C6: system() returns or raises only after the child has terminated; by
\* then every line the child wrote is in the log file and, in order, in the
\* captured output the failure error carries; and it raises the
\* subprocess-failure error exactly when the exit code is not zero.
C6_AllOutputCaptured ==
    SystemDone =>
        /\ childExited
        /\ output = childLines
        /\ \E n \in 0..Len(logfile) :
              SubSeq(logfile, n + 1, Len(logfile)) = childLines
        /\ (sysPc = "raised") = (exitCode # 0)
        /\ sysPc = "raised" => raised.output = childLines

---------------------------------------------------------------------------
(* Running commands from the build: system() as its callers see it *)

\* how many lines a command of the build writes at most
MaxCommandLines == 1

\* what a child does: its exit code, how many lines it writes, and how many
\* of them the poll/readline loop of system() has read when it leaves (the
\* loop reads the lines in order and reads at least one when there is one)
Behaviours ==
    { b \in [exit : ExitCodes, lines : 0..MaxCommandLines, kept : 0..MaxCommandLines] :
        /\ b.kept <= b.lines
        /\ b.lines >= 1 => b.kept >= 1 }

\* the lines system() wrote to the log and captured in output
Captured(command, b) ==
    [i \in 1..b.kept |-> command[1] \o ": line " \o ToString(i) \o "\n"]

\* The running build is a set of possible states [logs, cmds, exc]: an
\* operation maps the states that can enter it to the states that can leave
\* it.  A state whose exc is not "none" carries a propagating exception and
\* passes through every statement untouched.
Live(S) == { st \in S : st.exc = "none" }
Dead(S) == { st \in S : st.exc # "none" }

Raise(S, type) == Dead(S) \cup { [st EXCEPT !.exc = type] : st \in Live(S) }

\* a statement that may raise `type` or complete
MayRaise(S, type) == S \cup Raise(S, type)

LogTasks ==
    {"extract_archive", "run_configuration_script", "run_build_command",
     "run_install_command", "create_archive"}

NoLogs == [t \in LogTasks |-> <<>>]

\* the state one call of system() leaves, the child behaving as b
AfterCommand(st, task, command, cwd, env, append, b, checked) ==
    [logs |-> [st.logs EXCEPT ![task] =
                  (IF append THEN @ ELSE <<>>) \o Captured(command, b)],
     cmds |-> Append(st.cmds,
                [task |-> task, command |-> command, cwd |-> cwd, env |-> env,
                 returncode |-> b.exit, output |-> Captured(command, b),
                 caught |-> FALSE]),
     exc |-> IF checked /\ b.exit # 0 THEN "CalledProcessError" ELSE "none"]

\* system() without the test of the return code
system_unchecked(S, task, command, cwd, env) ==
    Dead(S) \cup
    { AfterCommand(st, task, command, cwd, env, FALSE, b, FALSE) :
        st \in Live(S), b \in Behaviours }

\* self.system(command, cwd=cwd, env=env) called from the method `task`;
\* no caller passes append_log, so the log is opened with mode 'w'
system(S, task, command, cwd, env) ==
    Dead(S) \cup
    { AfterCommand(st, task, command, cwd, env, FALSE, b, TRUE) :
        st \in Live(S), b \in Behaviours }

\* except subprocess.CalledProcessError: the states of S in which the try
\* block raised it, with the exception cleared and the command marked
Caught(S) ==
    { [st EXCEPT !.exc = "none", !.cmds[Len(st.cmds)].caught = TRUE] :
        st \in { t \in S : t.exc = "CalledProcessError" } }

\* env=None and cwd=None
NoEnv == [None |-> TRUE]
NoCwd == <<>>

---------------------------------------------------------------------------
(* Paths as strings, and Path.suffixes *)

sep(sp) == IF windows(sp) THEN "\\" ELSE "/"

EndsWith(s, suffix) ==
    Len(suffix) <= Len(s) /\ SubSeq(s, Len(s) - Len(suffix) + 1, Len(s)) = suffix

\* str(path): the anchor, then the other parts joined by the separator
PathStr(path, sp) ==
    IF Len(path) = 0 THEN "."
    ELSE IF EndsWith(path[1], sep(sp)) THEN path[1] \o Join(sep(sp), Tail(path))
    ELSE Join(sep(sp), path)

\* str.split
RECURSIVE Split(_, _)
Split(s, c) ==
    IF \A i \in 1..Len(s) : SubSeq(s, i, i) # c THEN <<s>>
    ELSE LET i == CHOOSE i \in 1..Len(s) :
                    /\ SubSeq(s, i, i) = c
                    /\ \A j \in 1..(i - 1) : SubSeq(s, j, j) # c
         IN  <<SubSeq(s, 1, i - 1)>> \o Split(SubSeq(s, i + 1, Len(s)), c)

\* str.lstrip('.')
RECURSIVE LStripDots(_)
LStripDots(s) ==
    IF Len(s) > 0 /\ SubSeq(s, 1, 1) = "." THEN LStripDots(SubSeq(s, 2, Len(s)))
    ELSE s

\* Path.suffixes, as a set: the dotted pieces of the final component
suffixes(path) ==
    LET name == path[Len(path)]
        pieces == Split(LStripDots(name), ".")
    IN  IF EndsWith(name, ".") THEN {}
        ELSE { "." \o pieces[i] : i \in 2..Len(pieces) }

---------------------------------------------------------------------------
(* Python values whose type decides what + does *)

PyList(items) == [type |-> "list", items |-> items]
PyStr(value) == [type |-> "str", value |-> value]
TypeError == [type |-> "TypeError"]

\* repr of a list of strings
PyRepr(list) ==
    "[" \o Join(", ", [i \in DOMAIN list.items |-> "'" \o list.items[i] \o "'"]) \o "]"

\* list + x: concatenation when x is a list, TypeError otherwise
PyAdd(a, b) ==
    IF a.type = "list" /\ b.type = "list" THEN PyList(a.items \o b.items)
    ELSE IF a.type = "str" /\ b.type = "str" THEN PyStr(a.value \o b.value)
    ELSE TypeError

---------------------------------------------------------------------------
(* extract_archive *)

NoFlags == PyList(<<>>)

\* the if/elif chain choosing the tar flags; NoFlags stands for its else
TarFlags(sfx) ==
    IF ".bz2" \in sfx THEN PyList(<<"jxf">>)
    ELSE IF ".gz" \in sfx THEN PyList(<<"zxf">>)
    ELSE IF ".tgz" \in sfx THEN PyList(<<"zxf">>)
    ELSE IF ".xz" \in sfx THEN PyList(<<"xf">>)
    ELSE IF ".zst" \in sfx THEN PyList(<<"--use-compress-program=zstd", "-xf">>)
    ELSE NoFlags

\* the Windows branch: flags = f'-{flags}', then tar with --force-local and,
\* on CalledProcessError, tar without it
ExtractOnWindows(S, flags, path, where, sp) ==
    LET wflags == PyStr("-" \o PyRepr(flags))
        first == PyAdd(PyAdd(PyList(<<"tar", "--force-local">>), wflags),
                       PyList(<<PathStr(path, sp)>>))
        second == PyAdd(PyAdd(PyList(<<"tar">>), wflags),
                        PyList(<<PathStr(path, sp)>>))
        tried == IF first = TypeError THEN Raise(Live(S), "TypeError")
                 ELSE system(Live(S), "extract_archive", first.items, where, NoEnv)
        handled == IF second = TypeError THEN Raise(Caught(tried), "TypeError")
                   ELSE system(Caught(tried), "extract_archive", second.items,
                               where, NoEnv)
    IN  Dead(S) \cup { st \in tried : st.exc # "CalledProcessError" } \cup handled

extract_archive(S, path, where, sp) ==
    LET sfx == suffixes(path)
        flags == TarFlags(sfx)
    IN  IF ".zip" \in sfx
        THEN system(S, "extract_archive",
                    <<"unzip", "-q", "-o", PathStr(path, sp)>>, where, NoEnv)
        ELSE
        LET S1 == IF ".7z" \in sfx
                  THEN system(S, "extract_archive",
                              <<"7z", "x", "-aoa", "-o" \o PathStr(where, sp),
                                PathStr(path, sp)>>, NoCwd, NoEnv)
                  ELSE S
        IN  IF flags = NoFlags THEN Raise(S1, "AttributeError")
            ELSE IF windows(sp) THEN ExtractOnWindows(S1, flags, path, where, sp)
            ELSE system(S1, "extract_archive",
                        <<"tar">> \o flags.items \o <<PathStr(path, sp)>>,
                        where, NoEnv)

---------------------------------------------------------------------------
(* Extraction specification: extract_archive called once on a drawn path *)

ArchiveFilenames ==
    {"qwt-6.1.4.zip", "qt-5.12.3-win.7z", "bzip2-1.0.8.tar.bz2",
     "zlib-1.2.11.tar.gz", "boost_1_73_0.tgz", "qt-5.12.3-linux.tar.xz",
     "llvm-10.0.0.tar.zst", "sources.tar", "notes.rar", "README"}

PackageName == "qwt"

\* Package.source_extracted
source_extracted(sp) == PathJoin(source_extracted_base(sp), PackageName)

ExtractInit ==
    /\ sys_platform \in SysPlatforms
    /\ environ = <<>>
    /\ eaPath \in { PathJoin(source_downloads_base(sys_platform, environ), f) :
                    f \in ArchiveFilenames }
    /\ eaCalled = FALSE
    /\ logs = NoLogs /\ cmds = <<>> /\ exc = "none"
    /\ NamingIdle /\ EnvIdle /\ FetchIdle /\ SystemIdle /\ BuildIdle

ExtractArchive ==
    /\ ~eaCalled
    /\ eaCalled' = TRUE
    /\ \E st \in extract_archive({[logs |-> logs, cmds |-> cmds, exc |-> exc]},
                                 eaPath, source_extracted(sys_platform), sys_platform) :
            logs' = st.logs /\ cmds' = st.cmds /\ exc' = st.exc
    /\ UNCHANGED <<eaPath, namingVars, processVars, envVars, fetchVars,
                   systemVars, buildVars>>

ExtractNext == ExtractArchive

SpecExtract == ExtractInit /\ [][ExtractNext]_vars

\* the extraction flags the claims give for a tar-family file name
ClaimedTarFlags(p) ==
    IF EndsWith(p, ".bz2") THEN <<"jxf">>
    ELSE IF EndsWith(p, ".gz") \/ EndsWith(p, ".tgz") THEN <<"zxf">>
    ELSE IF EndsWith(p, ".xz") THEN <<"xf">>
    ELSE <<"--use-compress-program=zstd", "-xf">>

TarFamily(p) ==
    \E x \in {".bz2", ".gz", ".tgz", ".xz", ".zst"} : EndsWith(p, x)

\* the one command the claim gives for a supported file name
ClaimedCommandIs(command, p) ==
    IF EndsWith(p, ".zip") THEN command = <<"unzip", "-q", "-o", p>>
    ELSE IF EndsWith(p, ".7z")
    THEN Len(command) >= 2 /\ command[1] = "7z" /\ command[2] = "x"
         /\ command[Len(command)] = p
    ELSE command = <<"tar">> \o ClaimedTarFlags(p) \o <<p>>

\* C2: off Windows, extract_archive runs exactly one extraction command,
\* selected by the path's suffix (.zip unzip -q -o; .7z 7z x; .bz2 tar jxf;
\* .gz and .tgz tar zxf; .xz tar xf; .zst tar --use-compress-program=zstd
\* -xf), and returns normally when that command succeeds; for a path with
\* none of these suffixes it raises the unsupported-format error and runs no
\* command.
C2_ExtractDispatch ==
    (eaCalled /\ ~windows(sys_platform)) =>
        LET p == PathStr(eaPath, sys_platform)
        IN  IF EndsWith(p, ".zip") \/ EndsWith(p, ".7z") \/ TarFamily(p)
            THEN /\ Len(cmds) = 1
                 /\ ClaimedCommandIs(cmds[1].command, p)
                 /\ cmds[1].returncode = 0 => exc = "none"
            ELSE cmds = <<>> /\ exc = "AttributeError"

\* C9: on Windows, extract_archive for a tar-family archive first runs tar
\* --force-local with the suffix's flags; exactly when that command exits
\* non-zero it runs tar once more with the same flags and without
\* --force-local; it succeeds when either attempt succeeds and raises the
\* subprocess-failure error only when both fail.
C9_WindowsTarFallback ==
    (eaCalled /\ windows(sys_platform) /\ TarFamily(PathStr(eaPath, sys_platform))) =>
        LET p == PathStr(eaPath, sys_platform)
        IN  /\ Len(cmds) \in {1, 2}
            /\ cmds[1].command
                 = <<"tar", "--force-local">> \o ClaimedTarFlags(p) \o <<p>>
            /\ (Len(cmds) = 2) = (cmds[1].returncode # 0)
            /\ Len(cmds) = 2 =>
                 cmds[2].command = <<"tar">> \o ClaimedTarFlags(p) \o <<p>>
            /\ (exc = "none") = (cmds[Len(cmds)].returncode = 0)
            /\ exc \in {"none", "CalledProcessError"}

---------------------------------------------------------------------------
(* QwtPackage and Package.build() *)

\* multiprocessing.cpu_count() on the build host
cpu_count == 4

version(env) == env["QWT_VERSION"]
qt_build(env) == env["QT_BUILD"]
qt_archive_suffix(env) == env["QT_ARCHIVE_SUFFIX"]

qt_version(env) == Split(qt_build(env), "-")[1]

qt_buildtype(sp) ==
    IF windows(sp) THEN "msvc2017_64"
    ELSE IF linux(sp) THEN "gcc_64"
    ELSE "clang_64"

qt_install_dir(env, sp) ==
    toolbase(sp) \o <<"qt", "qt-" \o qt_build(env), qt_version(env), qt_buildtype(sp)>>

main_source_directory_path(env, sp) ==
    PathJoin(source_extracted(sp), PackageName \o "-" \o version(env))

build_directory_path(sp) == PathJoin(source_builds_base(sp), PackageName)

\* QwtPackage.configuration_script
configuration_script(env, sp) ==
    qt_install_dir(env, sp)
        \o <<"bin", "qmake" \o (IF windows(sp) THEN ".exe" ELSE "")>>

\* QwtPackage.arguments_to_configuration_script
arguments_to_configuration_script(env, sp) ==
    <<"-makefile", PathStr(PathJoin(main_source_directory_path(env, sp), "qwt.pro"), sp)>>

\* rmtree with ignore_errors: nothing is run and nothing is raised
cleanup(S) == S

\* QwtPackage declares no source_archives: the loop has no entry
fetch_source_archives(S) == S

\* QwtPackage.extract_source_archives: the qwt zip, the rewrite of
\* qwtconfig.pri, then the Qt archive into toolbase/qt
extract_source_archives(S, env, sp) ==
    LET S1 == extract_archive(S,
                  PathJoin(source_downloads_base(sp, env),
                           "qwt-" \o version(env) \o ".zip"),
                  source_extracted(sp), sp)
        \* open(main_source_directory_path / 'qwtconfig.pri')
        S2 == MayRaise(S1, "FileNotFoundError")
    IN  extract_archive(S2,
            PathJoin(source_downloads_base(sp, env),
                     "qt-" \o qt_build(env) \o "-" \o qt_archive_suffix(env)),
            PathJoin(toolbase(sp), "qt"), sp)

patch_sources(S) == S

run_configuration_script(S, env, sp) ==
    \* os.stat(self.configuration_script) before the command
    system(MayRaise(S, "FileNotFoundError"), "run_configuration_script",
           <<PathStr(configuration_script(env, sp), sp)>>
               \o arguments_to_configuration_script(env, sp),
           build_directory_path(sp),
           environment_for_configuration_script(env, sp))

\* GnuMakeMixin.run_build_command
run_build_command(S, env, sp) ==
    system(S, "run_build_command", <<"make", "-j" \o ToString(cpu_count)>>,
           build_directory_path(sp), environment_for_build_command(env, sp))

\* MakeInstallMixin.run_install_command
run_install_command(S, env, sp) ==
    system(S, "run_install_command", <<"make", "install">>,
           build_directory_path(sp), environment_for_build_command(env, sp))

verify(S) == S

\* list.insert(i, x)
Insert(list, i, x) == SubSeq(list, 1, i) \o <<x>> \o SubSeq(list, i + 1, Len(list))

ArchiveCommand(env, sp) ==
    LET archive_output_directory ==
            IF "BUILD_ARTIFACTSTAGINGDIRECTORY" \in DOMAIN env
            THEN <<env["BUILD_ARTIFACTSTAGINGDIRECTORY"]>>
            ELSE source_builds_base(sp)
    IN  <<"tar", "-zcf",
          PathStr(PathJoin(archive_output_directory,
                    output_archive_filename(PackageName, version(env), env, sp, TRUE)), sp),
          PathStr(relative_to(
                    install_directory(PackageName, version(env), env, sp, TRUE),
                    PathJoin(toolbase(sp), PackageName)), sp)>>

\* create_archive retrying with --force-local on every platform
create_archive_retrying_everywhere(S, env, sp) ==
    LET cwd == PathJoin(toolbase(sp), PackageName)
        tried == system(Live(S), "create_archive", ArchiveCommand(env, sp), cwd, NoEnv)
    IN  Dead(S) \cup { st \in tried : st.exc # "CalledProcessError" }
        \cup system(Caught(tried), "create_archive",
                    Insert(ArchiveCommand(env, sp), 1, "--force-local"), cwd, NoEnv)

create_archive(S, env, sp) ==
    LET command == ArchiveCommand(env, sp)
        cwd == PathJoin(toolbase(sp), PackageName)
        tried == system(Live(S), "create_archive", command, cwd, NoEnv)
    IN  IF ~windows(sp) THEN Dead(S) \cup tried
        ELSE Dead(S) \cup { st \in tried : st.exc # "CalledProcessError" }
             \cup system(Caught(tried), "create_archive",
                         Insert(command, 1, "--force-local"), cwd, NoEnv)

---------------------------------------------------------------------------
(* Build specification: QwtPackage().build() on a drawn host and environment *)

QtArchiveSuffixes == {"linux.tar.xz", "mac.tar.gz", "win.7z", "win.zip", "src.tar"}

StagingDirectories(sp) ==
    IF windows(sp) THEN {"D:\\a\\1\\a"} ELSE {"/agent/_work/1/a"}

\* the variables QwtPackage requires, and the CI variables that may be set
BuildEnvs(sp) ==
    { e \in UNION { [ {"QWT_VERSION", "QT_BUILD", "QT_ARCHIVE_SUFFIX"} \cup D
                        -> {"6.1.4", "5.12.3-1", "20201105.1", "2019"}
                           \cup QtArchiveSuffixes \cup StagingDirectories(sp) ] :
                    D \in SUBSET {"BUILD_BUILDNUMBER", "BUILD_VS_VERSION",
                                  "BUILD_ARTIFACTSTAGINGDIRECTORY"} } :
        /\ e["QWT_VERSION"] = "6.1.4"
        /\ e["QT_BUILD"] = "5.12.3-1"
        /\ e["QT_ARCHIVE_SUFFIX"] \in QtArchiveSuffixes
        /\ "BUILD_BUILDNUMBER" \in DOMAIN e => e["BUILD_BUILDNUMBER"] = "20201105.1"
        /\ "BUILD_VS_VERSION" \in DOMAIN e => e["BUILD_VS_VERSION"] = "2019"
        /\ "BUILD_ARTIFACTSTAGINGDIRECTORY" \in DOMAIN e =>
              e["BUILD_ARTIFACTSTAGINGDIRECTORY"] \in StagingDirectories(sp) }

StageOrder ==
    <<"cleanup", "fetch_source_archives", "extract_source_archives",
      "patch_sources", "run_configuration_script", "run_build_command",
      "run_install_command", "verify", "create_archive">>

Init ==
    /\ sys_platform \in SysPlatforms
    /\ environ \in BuildEnvs(sys_platform)
    /\ pc = "cleanup"
    /\ ran = <<>>
    /\ logs = NoLogs /\ cmds = <<>> /\ exc = "none"
    /\ NamingIdle /\ EnvIdle /\ FetchIdle /\ SystemIdle /\ ExtractIdle

Running == {[logs |-> logs, cmds |-> cmds, exc |-> exc]}

\* one statement of build(): the stage is entered; build() goes on to `next`
\* when the stage returns and is left for good when it raises
Stage(stage, next, after) ==
    /\ pc = stage
    /\ ran' = Append(ran, stage)
    /\ \E st \in after :
        /\ logs' = st.logs /\ cmds' = st.cmds /\ exc' = st.exc
        /\ pc' = IF st.exc = "none" THEN next ELSE "aborted"
    /\ UNCHANGED <<namingVars, processVars, envVars, fetchVars, systemVars,
                   extractVars>>

Cleanup == Stage("cleanup", "fetch_source_archives", cleanup(Running))

FetchSourceArchives ==
    Stage("fetch_source_archives", "extract_source_archives",
          fetch_source_archives(Running))

ExtractSourceArchives ==
    Stage("extract_source_archives", "patch_sources",
          extract_source_archives(Running, environ, sys_platform))

PatchSources ==
    Stage("patch_sources", "run_configuration_script", patch_sources(Running))

RunConfigurationScript ==
    Stage("run_configuration_script", "run_build_command",
          run_configuration_script(Running, environ, sys_platform))

RunBuildCommand ==
    Stage("run_build_command", "run_install_command",
          run_build_command(Running, environ, sys_platform))

RunInstallCommand ==
    Stage("run_install_command", "verify",
          run_install_command(Running, environ, sys_platform))

Verify == Stage("verify", "create_archive", verify(Running))

CreateArchive ==
    Stage("create_archive", "done", create_archive(Running, environ, sys_platform))

Next ==
    \/ Cleanup \/ FetchSourceArchives \/ ExtractSourceArchives \/ PatchSources
    \/ RunConfigurationScript \/ RunBuildCommand \/ RunInstallCommand
    \/ Verify \/ CreateArchive

Spec == Init /\ [][Next]_vars

\* the stage of build() from which a command logged under `task` was run
StageOfTask(task) ==
    IF task = "extract_archive" THEN "extract_source_archives" ELSE task

\* a command that exited non-zero outside the Windows fallback retries
FailedUncaught(c) == c.returncode # 0 /\ ~c.caught

\* C1: build() enters the stages cleanup, fetch_source_archives,
\* extract_source_archives, patch_sources, run_configuration_script,
\* run_build_command, run_install_command, verify, create_archive in this
\* order, each at most once; when a command of a stage exits non-zero
\* (outside the Windows fallback retries) build() raises at that stage and
\* enters no later stage, so create_archive is entered only after every
\* earlier stage returned.
C1_StagesInOrderAbortOnFailure ==
    /\ IsPrefix(ran, StageOrder)
    /\ \A i \in DOMAIN cmds :
          FailedUncaught(cmds[i]) =>
              /\ pc = "aborted"
              /\ exc = "CalledProcessError"
              /\ i = Len(cmds)
              /\ ran[Len(ran)] = StageOfTask(cmds[i].task)
    /\ pc # "aborted" => exc = "none"
    /\ pc = "done" => ran = StageOrder
    /\ pc \in Range(StageOrder) => ran = SubSeq(StageOrder, 1, Len(ran))
                                   /\ StageOrder[Len(ran) + 1] = pc

\* a failing configuration script has stopped build() before run_build_command
C1_Witness ==
    /\ pc = "aborted"
    /\ ran = SubSeq(StageOrder, 1, 5)
    /\ cmds # <<>>
    /\ cmds[Len(cmds)].task = "run_configuration_script"
    /\ cmds[Len(cmds)].returncode # 0

\* sub occurs in s as a run of consecutive elements
ContainsRun(s, sub) ==
    \E i \in 0..(Len(s) - Len(sub)) : SubSeq(s, i + 1, i + Len(sub)) = sub

\* C7: the log file of a stage holds the output of every command run from
\* the method of that name during the build: a later command of the stage
\* does not discard what an earlier one logged.
C7_LogKeepsEveryCommand ==
    \A i \in DOMAIN cmds : ContainsRun(logs[cmds[i].task], cmds[i].output)

CreateArchiveCommands == SelectSeq(cmds, LAMBDA c : c.task = "create_archive")

C10_BaseName ==
    "qwt-" \o environ["QWT_VERSION"] \o "-"
    \o (IF "BUILD_BUILDNUMBER" \in DOMAIN environ
        THEN environ["BUILD_BUILDNUMBER"] ELSE "do-not-use-me-developer-version")
    \o "-" \o sys_platform
    \o (IF "BUILD_VS_VERSION" \in DOMAIN environ
        THEN "-vs" \o environ["BUILD_VS_VERSION"] ELSE "")

C10_Archive ==
    IF "BUILD_ARTIFACTSTAGINGDIRECTORY" \in DOMAIN environ
    THEN environ["BUILD_ARTIFACTSTAGINGDIRECTORY"]
         \o (IF sys_platform = "win32" THEN "\\" ELSE "/")
         \o C10_BaseName \o ".tar.gz"
    ELSE IF sys_platform = "win32"
    THEN "D:\\tp\\builds\\" \o C10_BaseName \o ".tar.gz"
    ELSE "/opt/ccdc/third-party-sources/builds/" \o C10_BaseName \o ".tar.gz"

C10_Cwd ==
    IF sys_platform = "win32" THEN <<"D:", "x_mirror", "buildman", "tools", "qwt">>
    ELSE <<"/", "opt", "ccdc", "third-party", "qwt">>

\* C10: create_archive runs tar -zcf <archive directory>/<output base
\* name>.tar.gz <install directory relative to toolbase/name> in toolbase/name,
\* the archive directory being BUILD_ARTIFACTSTAGINGDIRECTORY if set and
\* source_builds_base otherwise; when that command exits non-zero it is
\* retried exactly once with --force-local added on Windows (a failing retry
\* propagates), and on every other platform the failure propagates with no
\* retry.
C10_CreateArchive ==
    Len(ran) = Len(StageOrder) =>
        LET ca == CreateArchiveCommands
        IN  /\ Len(ca) >= 1
            /\ ca[1].command = <<"tar", "-zcf", C10_Archive, C10_BaseName>>
            /\ ca[1].cwd = C10_Cwd
            /\ IF ca[1].returncode = 0
               THEN Len(ca) = 1 /\ pc = "done"
               ELSE IF sys_platform = "win32"
               THEN /\ Len(ca) = 2
                    /\ ca[2].command
                         = <<"tar", "--force-local", "-zcf", C10_Archive, C10_BaseName>>
                    /\ ca[2].cwd = C10_Cwd
                    /\ (pc = "done") = (ca[2].returncode = 0)
                    /\ (pc = "aborted") = (ca[2].returncode # 0)
                    /\ pc = "aborted" => exc = "CalledProcessError"
               ELSE Len(ca) = 1 /\ pc = "aborted" /\ exc = "CalledProcessError"

\* on Windows the first tar failed and the retry with --force-local succeeded
C10_Witness ==
    /\ sys_platform = "win32"
    /\ pc = "done"
    /\ Len(CreateArchiveCommands) = 2
    /\ CreateArchiveCommands[1].returncode # 0
    /\ CreateArchiveCommands[2].returncode = 0
    /\ CreateArchiveCommands[2].command[2] = "--force-local"
    /\ "BUILD_ARTIFACTSTAGINGDIRECTORY" \in DOMAIN environ

===========================================================================
